---- MODULE Spec2Model ----
(***************************************************************************)
(* NTRTsim: the two structure-to-model builders                            *)
(*   src/dev/btietz/TetraSpineStatic/TetraSpineStaticModel.cpp             *)
(*   src/examples/GenericTensegrity/TensegrityModel.cpp                    *)
(*                                                                         *)
(* Conventions of the model                                                *)
(*  - C++ containers are 0-based; At(v, i) reads element i of a sequence.  *)
(*  - A tag string such as "outer right muscle" is the sequence of its     *)
(*    space-separated words; "is a substring of" is "is a contiguous run   *)
(*    of words of".                                                        *)
(*  - A position is [at, t]: `at` names the point in the coordinates the   *)
(*    structure was drawn in, `t` is the translation applied since, in     *)
(*    tenths of a length unit (so that -21.5 is the integer -215).         *)
(***************************************************************************)
EXTENDS Integers, Sequences, FiniteSets, TLC

\* ------------------------------------------------------------------ bounds
MaxSegments == 3
MaxProtoNodes == 6
MaxProtoEdges == 2
MaxObservers == 2
MaxDocNodes == 2
MaxDocPairs == 1

\* addMuscles addresses nodes 0..3 of every segment
MinProtoNodes == 4

\* ------------------------------------------------------------ small helpers
At(v, i) == v[i + 1]

InRange(v, i) == i >= 0 /\ i < Len(v)

RECURSIVE SumSeq(_)
SumSeq(v) == IF v = <<>> THEN 0 ELSE Head(v) + SumSeq(Tail(v))

RECURSIVE Flatten(_)
Flatten(vv) == IF vv = <<>> THEN <<>> ELSE Head(vv) \o Flatten(Tail(vv))

VecAdd(a, b) == <<a[1] + b[1], a[2] + b[2], a[3] + b[3]>>

VecScale(k, a) == <<k * a[1], k * a[2], k * a[3]>>

\* ------------------------------------------------------------- tgStructure
EmptyStructure == [nodes |-> <<>>, pairs |-> <<>>, tags |-> {}, children |-> <<>>]

Pos(node) == [at |-> node.at, t |-> node.t]

MovePos(p, v) == [p EXCEPT !.t = VecAdd(@, v)]

addNode(s, at, tags) ==
    [s EXCEPT !.nodes = Append(@, [at |-> at, t |-> <<0, 0, 0>>, tags |-> tags])]

\* addPair(const btVector3& from, const btVector3& to, tags)
addPairNodes(s, from, to, tags) ==
    [s EXCEPT !.pairs = Append(@, [from |-> Pos(from), to |-> Pos(to), tags |-> {tags}])]

\* addPair(int fromNodeIdx, int toNodeIdx, tags)
addPair(s, i, j, tags) == addPairNodes(s, At(s.nodes, i), At(s.nodes, j), tags)

addTags(s, tag) == [s EXCEPT !.tags = @ \cup {tag}]

addChild(s, child) == [s EXCEPT !.children = Append(@, child)]

RECURSIVE move(_, _)
move(s, v) ==
    [nodes    |-> [i \in 1..Len(s.nodes) |-> MovePos(s.nodes[i], v)],
     pairs    |-> [i \in 1..Len(s.pairs) |->
                     [s.pairs[i] EXCEPT !.from = MovePos(@, v), !.to = MovePos(@, v)]],
     tags     |-> s.tags,
     children |-> [i \in 1..Len(s.children) |-> move(s.children[i], v)]]

\* every pair of the structure and of its descendants, children first
RECURSIVE AllPairs(_)
AllPairs(s) ==
    Flatten([i \in 1..Len(s.children) |-> AllPairs(s.children[i])]) \o s.pairs

RECURSIVE AllNodes(_)
AllNodes(s) ==
    Flatten([i \in 1..Len(s.children) |-> AllNodes(s.children[i])]) \o s.nodes

\* ------------------------------------------------- TetraSpineStaticModel.cpp
tetraAddNodes(tetra) ==
    LET s1 == addNode(tetra, {0}, {<<"base">>})
        s2 == addNode(s1, {1}, {<<"base">>})
        s3 == addNode(s2, {2}, {<<"base">>})
        s4 == addNode(s3, {3}, {<<"tip">>})
        \* (oldNodes[0] + oldNodes[2]) / 2 and (oldNodes[1] + oldNodes[2]) / 2
        s5 == addNode(s4, At(s4.nodes, 0).at \cup At(s4.nodes, 2).at, {<<"PCB">>})
        s6 == addNode(s5, At(s4.nodes, 1).at \cup At(s4.nodes, 2).at, {<<"PCB">>})
    IN  s6

PairTable ==
    << <<0, 1, <<"back", "bottom", "rod">> >>,
       <<0, 4, <<"back", "rightBottom", "rod">> >>,
       <<4, 2, <<"back", "rightTop", "rod">> >>,
       <<0, 3, <<"front", "right", "rod">> >>,
       <<1, 5, <<"back", "leftBottom", "rod">> >>,
       <<5, 2, <<"back", "leftTop", "rod">> >>,
       <<1, 3, <<"front", "left", "rod">> >>,
       <<2, 3, <<"front", "top", "rod">> >> >>

RECURSIVE AddPairsFrom(_, _)
AddPairsFrom(s, table) ==
    IF table = <<>> THEN s
    ELSE AddPairsFrom(addPair(s, Head(table)[1], Head(table)[2], Head(table)[3]),
                      Tail(table))

addPairs(tetra) == AddPairsFrom(tetra, PairTable)

SegmentOffset == <<0, 0, -215>>

InitialMove == <<0, 20, 1000>>

SegmentTag(i) == <<"segment", "num" \o ToString(i + 1)>>

\* the child built by iteration i of addSegments
Segment(tetra, i) == move(addTags(tetra, SegmentTag(i)), VecScale(i + 1, SegmentOffset))

addSegments_skipLast(snake, tetra, segmentCount) ==
    LET RECURSIVE Loop(_, _)
        Loop(s, i) ==
            IF ~(i < segmentCount - 1) THEN s
            ELSE Loop(addChild(s, Segment(tetra, i)), i + 1)
    IN  Loop(snake, 0)

addSegments(snake, tetra, segmentCount) ==
    LET RECURSIVE Loop(_, _)
        Loop(s, i) ==
            IF ~(i < segmentCount) THEN s
            ELSE Loop(addChild(s, Segment(tetra, i)), i + 1)
    IN  Loop(snake, 0)

MuscleTable ==
    << <<0, 0, <<"outer", "right", "muscle">> >>,
       <<1, 1, <<"outer", "left", "muscle">> >>,
       <<2, 2, <<"outer", "top", "muscle">> >>,
       <<0, 3, <<"inner", "right", "muscle">> >>,
       <<1, 3, <<"inner", "left", "muscle">> >>,
       <<2, 3, <<"inner", "top", "muscle">> >> >>

\* the six addPair calls of one iteration of addMuscles
RECURSIVE AddMusclesFrom(_, _, _, _)
AddMusclesFrom(snake, n0, n1, table) ==
    IF table = <<>> THEN snake
    ELSE AddMusclesFrom(
            addPairNodes(snake, At(n0, Head(table)[1]), At(n1, Head(table)[2]),
                         Head(table)[3]),
            n0, n1, Tail(table))

RECURSIVE AddMusclesLoop(_, _, _)
AddMusclesLoop(snake, children, i) ==
    IF ~(i < Len(children)) THEN snake
    ELSE AddMusclesLoop(
            AddMusclesFrom(snake, At(children, i - 1).nodes, At(children, i).nodes,
                           MuscleTable),
            children, i + 1)

addMuscles_sameSegment(snake) ==
    LET children == snake.children
        RECURSIVE Loop(_, _)
        Loop(s, i) ==
            IF ~(i < Len(children)) THEN s
            ELSE Loop(AddMusclesFrom(s, At(children, i).nodes, At(children, i).nodes,
                                     MuscleTable), i + 1)
    IN  Loop(snake, 1)

addMuscles(snake) == AddMusclesLoop(snake, snake.children, 1)

\* ----------------------------------------------- tgBuildSpec, tgStructureInfo
\* label is a contiguous run of the words of tag (label = tag included)
Contains(label, tag) ==
    \E i \in 1..(Len(tag) - Len(label) + 1) : SubSeq(tag, i, i + Len(label) - 1) = label

Matches(label, tags) == \E tg \in tags : Contains(label, tg)

addBuilder(spec, label, builder) == Append(spec, [label |-> label, builder |-> builder])

\* index (from 1) of the first registered label that matches, 0 when none does
Resolve(spec, tags) ==
    LET hits == {i \in 1..Len(spec) : Matches(spec[i].label, tags)}
    IN  IF hits = {} THEN 0 ELSE CHOOSE i \in hits : \A j \in hits : i <= j

Unresolved(structure, spec) ==
    \E i \in 1..Len(AllPairs(structure)) : Resolve(spec, AllPairs(structure)[i].tags) = 0

Component(pair, builder) ==
    [kind |-> builder.kind, config |-> builder.config,
     from |-> pair.from, to |-> pair.to, tags |-> pair.tags]

\* the components of one kind, in the order the pairs are walked
Built(structure, spec, kind) ==
    LET pairs == AllPairs(structure)
        RECURSIVE Walk(_)
        Walk(i) ==
            IF i > Len(pairs) THEN <<>>
            ELSE LET r == Resolve(spec, pairs[i].tags)
                 IN  IF r # 0 /\ spec[r].builder.kind = kind
                     THEN <<Component(pairs[i], spec[r].builder)>> \o Walk(i + 1)
                     ELSE Walk(i + 1)
    IN  Walk(1)

\* buildInto: rigid links first, then actuators; an unresolved pair is fatal
buildInto(structure, spec) ==
    IF Unresolved(structure, spec)
    THEN [error |-> "unresolved edge", rigids |-> <<>>, actuators |-> <<>>]
    ELSE [error |-> "none",
          rigids |-> Built(structure, spec, "rod"),
          actuators |-> Built(structure, spec, "muscle")]

\* the registry TetraSpineStaticModel::setup populates
SpineBuildSpec_noLeft ==
    LET s1 == addBuilder(<<>>, <<"rod">>, [kind |-> "rod", config |-> "rodConfig"])
        s2 == addBuilder(s1, <<"static", "rod">>, [kind |-> "rod", config |-> "staticConfig"])
        s3 == addBuilder(s2, <<"top", "muscle">>, [kind |-> "muscle", config |-> "muscleConfig"])
        s5 == addBuilder(s3, <<"right", "muscle">>, [kind |-> "muscle", config |-> "muscleConfig2"])
    IN  s5

SpineBuildSpec ==
    LET s1 == addBuilder(<<>>, <<"rod">>, [kind |-> "rod", config |-> "rodConfig"])
        s2 == addBuilder(s1, <<"static", "rod">>, [kind |-> "rod", config |-> "staticConfig"])
        s3 == addBuilder(s2, <<"top", "muscle">>, [kind |-> "muscle", config |-> "muscleConfig"])
        s4 == addBuilder(s3, <<"left", "muscle">>, [kind |-> "muscle", config |-> "muscleConfig2"])
        s5 == addBuilder(s4, <<"right", "muscle">>, [kind |-> "muscle", config |-> "muscleConfig2"])
    IN  s5

\* the prototype setup hands to addSegments
TetraPrototype == move(addPairs(tetraAddNodes(EmptyStructure)), InitialMove)

\* ------------------------------------------------- tgSubject, tgModel::step
Observers == 1..MaxObservers

\* the time steps a caller passes, in tenths: negative, zero, positive
TimeSteps == {-1, 0, 1}

attach(observers, o) == Append(observers, o)

\* one onStep per attached observer, in attachment order
notifyStep(observers, dt) ==
    [i \in 1..Len(observers) |-> [event |-> "onStep", observer |-> observers[i], dt |-> dt]]

\* the children advance once
stepChildren(dt) == <<[event |-> "step children", dt |-> dt]>>

NoCall == [who |-> "", op |-> "none", dt |-> 0, thrown |-> "none", events |-> <<>>]

StepCall(dt, thrown, events) ==
    [who |-> "", op |-> "step", dt |-> dt, thrown |-> thrown, events |-> events]

\* BaseSpineModelLearning::step as its caller describes it ("step any children,
\* notify observers"); whether the children accept dt = 0 is left open
BaseSpineModelLearning_step(observers, dt, childrenAccept) ==
    IF dt > 0 \/ childrenAccept
    THEN StepCall(dt, "none", notifyStep(observers, dt) \o stepChildren(dt))
    ELSE StepCall(dt, "invalid_argument", notifyStep(observers, dt))

TetraSpineStaticModel_step(observers, dt, childrenAccept) ==
    IF dt < 0
    THEN StepCall(dt, "invalid_argument", <<>>)
    ELSE BaseSpineModelLearning_step(observers, dt, childrenAccept)

\* ---------------------------------------- TetraSpineStaticModel::setup parts
\* tgModel::find: the components one of whose tags contains the label
find(components, label) ==
    SelectSeq(components, LAMBDA c : Matches(label, c.tags))

MuscleKeys ==
    {<<"inner", "left">>, <<"inner", "right">>, <<"inner", "top">>,
     <<"outer", "left">>, <<"outer", "right">>, <<"outer", "top">>}

mapMuscles(actuators) ==
    [k \in MuscleKeys |-> find(actuators, k \o <<"muscle">>)]

\* the indices addMarkers reads: children[0], children[1], getAllRigids()[0]
\* and getAllRigids()[9]
MarkerChildReads == {0, 1}

MarkerRigidReads == {0, 9}

\* the four markers: (child read, node read, rigid read)
MarkerTable == << <<0, 3, 0>>, <<1, 3, 9>>, <<1, 1, 9>>, <<1, 0, 9>> >>

MarkersInRange(structure, rigids) ==
    /\ \A c \in MarkerChildReads : InRange(structure.children, c)
    /\ \A r \in MarkerRigidReads : InRange(rigids, r)
    /\ \A i \in 1..Len(MarkerTable) :
            InRange(At(structure.children, MarkerTable[i][1]).nodes, MarkerTable[i][2])

\* a read past the end of a std::vector yields no defined value: the marker
\* is then built from whatever was read (valid = FALSE)
addMarkers(structure, rigids) ==
    [i \in 1..Len(MarkerTable) |->
        LET c == MarkerTable[i][1]
            k == MarkerTable[i][2]
            r == MarkerTable[i][3]
        IN  IF /\ InRange(structure.children, c)
               /\ InRange(rigids, r)
               /\ InRange(At(structure.children, c).nodes, k)
            THEN [valid |-> TRUE, child |-> c, rigid |-> r,
                  point |-> Pos(At(At(structure.children, c).nodes, k))]
            ELSE [valid |-> FALSE, child |-> c, rigid |-> r,
                  point |-> [at |-> {}, t |-> <<0, 0, 0>>]]]

\* ------------------------------------------------------- TensegrityModel.cpp
\* JSON values as jsoncpp holds them
JNum(n) == [type |-> "number", num |-> n]

JNull == [type |-> "null", num |-> 0]

JText == [type |-> "string", num |-> 0]

\* Json::Value::asDouble: a number converts to itself, null (an absent member)
\* to 0.0, a string does not convert
asDouble(v) ==
    CASE v.type = "number" -> [ok |-> TRUE, val |-> v.num]
      [] v.type = "null"   -> [ok |-> TRUE, val |-> 0]
      [] OTHER             -> [ok |-> FALSE, val |-> 0]

Fields == {"radius", "density", "stiffness", "damping", "pretension"}

GoodParams ==
    [f \in Fields |->
        CASE f = "radius"    -> JNum(1)
          [] f = "density"   -> JNum(2)
          [] f = "stiffness" -> JNum(3)
          [] f = "damping"   -> JNum(4)
          [] OTHER           -> JNum(5)]

\* sequences of length at most n over S
RECURSIVE SeqsUpTo(_, _)
SeqsUpTo(S, n) ==
    IF n = 0 THEN {<<>>}
    ELSE SeqsUpTo(S, n - 1) \cup
         {Append(q, x) : q \in {q \in SeqsUpTo(S, n - 1) : Len(q) = n - 1}, x \in S}

\* the index pairs a document over K nodes may hold: 1-based, two distinct nodes
IndexPairs(K) == {<<a, b>> : a \in 1..K, b \in 1..K} \ {<<a, a>> : a \in 1..K}

Document(K, rods, muscles, params) ==
    [parses  |-> TRUE,
     nodes   |-> [j \in 1..K |-> <<j, 0, 0>>],
     rods    |-> rods,
     muscles |-> muscles,
     params  |-> params]

Malformed ==
    [parses |-> FALSE, nodes |-> <<>>, rods |-> <<>>, muscles |-> <<>>,
     params |-> [f \in Fields |-> JNull]]

StructureDocs ==
    UNION {{Document(K, rods, muscles, GoodParams) :
                rods \in SeqsUpTo(IndexPairs(K), MaxDocPairs),
                muscles \in SeqsUpTo(IndexPairs(K), MaxDocPairs)} :
           K \in 0..MaxDocNodes}

\* documents that parse but lack a numeric field, or hold a string there
ParamDocs ==
    {Document(2, << <<1, 2>> >>, << <<2, 1>> >>, [GoodParams EXCEPT ![f] = v]) :
        f \in Fields, v \in {JNull, JText}}

Docs == StructureDocs \cup ParamDocs \cup {Malformed}

WellFormed(doc) ==
    /\ doc.parses
    /\ \A f \in Fields : doc.params[f].type = "number"

Paths == {"a.json", "b.json"}

Instances == {"m1", "m2"}

TensegrityModel_addNodes(s, root) ==
    LET RECURSIVE Loop(_, _)
        Loop(st, i) ==
            IF ~(i < Len(root.nodes)) THEN st
            ELSE Loop(addNode(st, At(root.nodes, i), {}), i + 1)
    IN  Loop(s, 0)

TensegrityModel_addRods_oneBased(s, root) ==
    LET RECURSIVE Loop(_, _)
        Loop(st, i) ==
            IF ~(i < Len(root.rods)) THEN st
            ELSE LET n1 == At(root.rods, i)[1]
                     n2 == At(root.rods, i)[2]
                 IN  Loop(addPair(st, n1 % Len(st.nodes), n2 % Len(st.nodes), <<"rod">>),
                          i + 1)
    IN  Loop(s, 0)

TensegrityModel_addRods(s, root) ==
    LET RECURSIVE Loop(_, _)
        Loop(st, i) ==
            IF ~(i < Len(root.rods)) THEN st
            ELSE LET n1 == At(root.rods, i)[1]
                     n2 == At(root.rods, i)[2]
                 IN  Loop(addPair(st, n1 - 1, n2 - 1, <<"rod">>), i + 1)
    IN  Loop(s, 0)

TensegrityModel_addMuscles(s, root) ==
    LET RECURSIVE Loop(_, _)
        Loop(st, i) ==
            IF ~(i < Len(root.muscles)) THEN st
            ELSE LET n1 == At(root.muscles, i)[1]
                     n2 == At(root.muscles, i)[2]
                 IN  Loop(addPair(st, n1 - 1, n2 - 1, <<"muscle">>), i + 1)
    IN  Loop(s, 0)

TensInitialMove == <<0, 100, 0>>

\* the five conversions of setup, in the order it makes them
Conversions(root) ==
    [f \in Fields |-> asDouble(root.params[f])]

TensBuildSpec(conv) ==
    LET rodConfig    == [radius |-> conv["radius"].val, density |-> conv["density"].val]
        muscleConfig == [stiffness |-> conv["stiffness"].val,
                         damping |-> conv["damping"].val,
                         pretension |-> conv["pretension"].val]
        s1 == addBuilder(<<>>, <<"rod">>, [kind |-> "rod", config |-> rodConfig])
        s2 == addBuilder(s1, <<"muscle">>, [kind |-> "muscle", config |-> muscleConfig])
    IN  s2

NewModel ==
    [status |-> "absent", ctorPath |-> "", readPath |-> "", result |-> "none",
     diagnostic |-> "", s |-> EmptyStructure, builders |-> <<>>, rigids |-> <<>>,
     allActuators |-> <<>>, observers |-> <<>>, setupNotified |-> <<>>,
     childrenSetup |-> FALSE]

TensegrityModel_setup_noReturn(m, path, root) ==
    LET conv == Conversions(root)
        s    == move(TensegrityModel_addMuscles(
                        TensegrityModel_addRods(
                            TensegrityModel_addNodes(EmptyStructure, root), root), root),
                     TensInitialMove)
        spec == TensBuildSpec(conv)
        built == buildInto(s, spec)
    IN  [m EXCEPT !.readPath = path,
                  !.result = IF root.parses THEN "built" ELSE "parse failure",
                  !.diagnostic = IF root.parses THEN "" ELSE "Failed to parse configuration",
                  !.status = "built", !.s = s, !.builders = spec,
                  !.rigids = built.rigids, !.allActuators = built.actuators,
                  !.setupNotified = m.observers, !.childrenSetup = TRUE]

\* setup(world) of a model m, given the text found at the path it read
TensegrityModel_setup(m, path, root) ==
    LET read == [m EXCEPT !.readPath = path]
        conv == Conversions(root)
        s    == move(TensegrityModel_addMuscles(
                        TensegrityModel_addRods(
                            TensegrityModel_addNodes(EmptyStructure, root), root), root),
                     TensInitialMove)
        spec == TensBuildSpec(conv)
        built == buildInto(s, spec)
    IN  IF ~root.parses
        THEN [read EXCEPT !.result = "parse failure",
                          !.diagnostic = "Failed to parse configuration"]
        ELSE IF \E f \in Fields : ~conv[f].ok
        THEN [read EXCEPT !.result = "conversion failure"]
        ELSE IF built.error # "none"
        THEN [read EXCEPT !.result = built.error, !.s = s, !.builders = spec]
        ELSE [read EXCEPT !.result = "built", !.status = "built", !.s = s,
                          !.builders = spec, !.rigids = built.rigids,
                          !.allActuators = built.actuators,
                          !.setupNotified = m.observers,
                          !.childrenSetup = TRUE]

TensegrityModel_step_childrenFirst(observers, dt) ==
    IF dt <= 0
    THEN StepCall(dt, "invalid_argument", <<>>)
    ELSE StepCall(dt, "none", stepChildren(dt) \o notifyStep(observers, dt))

TensegrityModel_step(observers, dt) ==
    IF dt <= 0
    THEN StepCall(dt, "invalid_argument", <<>>)
    ELSE StepCall(dt, "none", notifyStep(observers, dt) \o stepChildren(dt))

\* ------------------------------------------------------------------- state
VARIABLES genTetra, genCount, genSnake, genPc

\* TetraSpineStaticModel: m_segments, m_allMuscles, m_allSegments and
\* m_muscleMap are its members; spineRigids is getAllRigids(), markers the
\* markers added, snake the structure setup assembled, markerReads the
\* vector indices addMarkers read, spineCall the outcome of the last step
VARIABLES m_segments, spineStatus, snake, spineRigids, m_allMuscles,
          m_allSegments, m_muscleMap, markers, markerReads, spineObservers,
          spineCall

\* TensegrityModel: jsonPath is the static member; files is what
\* FileHelpers::getFileString returns for each path; models holds each
\* instance's members (allActuators, the observers of tgSubject) and what
\* its constructor was given and its setup read; tensCall is the outcome of
\* the last step or teardown
VARIABLES jsonPath, files, models, tensCall

genVars == <<genTetra, genCount, genSnake, genPc>>

tensVars == <<jsonPath, files, models, tensCall>>

spineVars == <<m_segments, spineStatus, snake, spineRigids, m_allMuscles,
               m_allSegments, m_muscleMap, markers, markerReads,
               spineObservers, spineCall>>

vars == <<genVars, spineVars, tensVars>>

TensIdle ==
    /\ jsonPath = ""
    /\ files = [p \in Paths |-> Malformed]
    /\ models = [i \in Instances |-> NewModel]
    /\ tensCall = NoCall

NoReads == [children |-> {}, rigids |-> {}]

GenIdle ==
    /\ genTetra = EmptyStructure
    /\ genCount = 0
    /\ genSnake = EmptyStructure
    /\ genPc = "idle"

SpineIdle ==
    /\ m_segments = 0
    /\ spineStatus = "absent"
    /\ snake = EmptyStructure
    /\ spineRigids = <<>>
    /\ m_allMuscles = <<>>
    /\ m_allSegments = <<>>
    /\ m_muscleMap = [k \in MuscleKeys |-> <<>>]
    /\ markers = <<>>
    /\ markerReads = NoReads
    /\ spineObservers = <<>>
    /\ spineCall = NoCall

\* ------------------------------------------------- TetraSpineStaticModel
\* TetraSpineStaticModel(size_t segments)
SpineInit ==
    /\ m_segments \in 0..MaxSegments
    /\ spineStatus = "constructed"
    /\ snake = EmptyStructure
    /\ spineRigids = <<>>
    /\ m_allMuscles = <<>>
    /\ m_allSegments = <<>>
    /\ m_muscleMap = [k \in MuscleKeys |-> <<>>]
    /\ markers = <<>>
    /\ markerReads = NoReads
    /\ spineObservers = <<>>
    /\ spineCall = NoCall
    /\ GenIdle
    /\ TensIdle

SpineAttach(o) ==
    /\ spineStatus \in {"constructed", "setup"}
    /\ \A i \in 1..Len(spineObservers) : spineObservers[i] # o
    /\ spineObservers' = attach(spineObservers, o)
    /\ UNCHANGED <<m_segments, spineStatus, snake, spineRigids, m_allMuscles,
                   m_allSegments, m_muscleMap, markers, markerReads, spineCall>>
    /\ UNCHANGED <<genVars, tensVars>>

\* setup(world); outcome is what the out-of-range reads of addMarkers, when
\* there are any, lead to: the process dies, or setup goes on with what it read
SpineSetup(outcome) ==
    /\ spineStatus = "constructed"
    /\ LET tetra == move(addPairs(tetraAddNodes(EmptyStructure)), InitialMove)
           built == addMuscles(addSegments(EmptyStructure, tetra, m_segments))
           model == buildInto(built, SpineBuildSpec)
       IN  /\ snake' = built
           /\ IF model.error # "none"
              THEN /\ spineStatus' = "unresolved edge"
                   /\ UNCHANGED <<spineRigids, m_allMuscles, m_allSegments,
                                  m_muscleMap, markers, markerReads>>
              ELSE /\ spineRigids' = model.rigids
                   /\ m_allMuscles' = find(model.actuators, <<"muscle">>)
                   /\ m_allSegments' =
                        SelectSeq([i \in 1..Len(built.children) |-> built.children[i].tags],
                                  LAMBDA tags : Matches(<<"segment">>, tags))
                   /\ m_muscleMap' = mapMuscles(model.actuators)
                   /\ markerReads' = [children |-> MarkerChildReads,
                                      rigids |-> MarkerRigidReads]
                   /\ IF MarkersInRange(built, model.rigids)
                      THEN /\ outcome = "defined"
                           /\ markers' = addMarkers(built, model.rigids)
                           /\ spineStatus' = "setup"
                      ELSE \/ /\ outcome = "crash"
                              /\ markers' = <<>>
                              /\ spineStatus' = "crashed"
                           \/ /\ outcome = "garbage"
                              /\ markers' = addMarkers(built, model.rigids)
                              /\ spineStatus' = "setup"
    /\ UNCHANGED <<m_segments, spineObservers, spineCall>>
    /\ UNCHANGED <<genVars, tensVars>>

\* step(dt)
SpineStep(dt, childrenAccept) ==
    /\ spineStatus \in {"constructed", "setup"}
    /\ spineCall' = TetraSpineStaticModel_step(spineObservers, dt, childrenAccept)
    /\ UNCHANGED <<m_segments, spineStatus, snake, spineRigids, m_allMuscles,
                   m_allSegments, m_muscleMap, markers, markerReads, spineObservers>>
    /\ UNCHANGED <<genVars, tensVars>>

\* teardown(): BaseSpineModelLearning::teardown releases what setup built
SpineTeardown ==
    /\ spineStatus = "setup"
    /\ spineStatus' = "constructed"
    /\ snake' = EmptyStructure
    /\ spineRigids' = <<>>
    /\ m_allMuscles' = <<>>
    /\ m_allSegments' = <<>>
    /\ m_muscleMap' = [k \in MuscleKeys |-> <<>>]
    /\ markers' = <<>>
    /\ markerReads' = NoReads
    /\ spineCall' = [NoCall EXCEPT !.op = "teardown"]
    /\ UNCHANGED <<m_segments, spineObservers>>
    /\ UNCHANGED <<genVars, tensVars>>

SpineNext ==
    \/ \E o \in Observers : SpineAttach(o)
    \/ \E outcome \in {"defined", "crash", "garbage"} : SpineSetup(outcome)
    \/ \E dt \in TimeSteps, childrenAccept \in BOOLEAN : SpineStep(dt, childrenAccept)
    \/ SpineTeardown

SpecSpine == SpineInit /\ [][SpineNext]_vars

\* ------------------------------------------------------- TensegrityModel
\* TensegrityModel(string j)
TensConstruct(i, j) ==
    /\ models[i].status = "absent"
    /\ jsonPath' = j
    /\ models' = [models EXCEPT ![i] = [NewModel EXCEPT !.status = "constructed",
                                                        !.ctorPath = j]]
    /\ UNCHANGED <<files, tensCall>>
    /\ UNCHANGED <<genVars, spineVars>>

TensAttach(i, o) ==
    /\ models[i].status \in {"constructed", "built"}
    /\ \A k \in 1..Len(models[i].observers) : models[i].observers[k] # o
    /\ models' = [models EXCEPT ![i].observers = attach(@, o)]
    /\ UNCHANGED <<jsonPath, files, tensCall>>
    /\ UNCHANGED <<genVars, spineVars>>

\* setup(world)
TensSetup(i) ==
    /\ models[i].status = "constructed"
    /\ models' = [models EXCEPT
                    ![i] = TensegrityModel_setup(@, jsonPath, files[jsonPath])]
    /\ UNCHANGED <<jsonPath, files, tensCall>>
    /\ UNCHANGED <<genVars, spineVars>>

\* step(dt)
TensStep(i, dt) ==
    /\ models[i].status \in {"constructed", "built"}
    /\ tensCall' = [TensegrityModel_step(models[i].observers, dt) EXCEPT !.who = i]
    /\ UNCHANGED <<jsonPath, files, models>>
    /\ UNCHANGED <<genVars, spineVars>>

\* teardown(): notifyTeardown, then tgModel::teardown releases the children
TensTeardown(i) ==
    /\ models[i].status = "built"
    /\ models' = [models EXCEPT ![i] =
                    [NewModel EXCEPT !.status = "constructed",
                                     !.ctorPath = models[i].ctorPath,
                                     !.observers = models[i].observers]]
    /\ tensCall' =
         [NoCall EXCEPT !.who = i, !.op = "teardown",
                        !.events =
                            [k \in 1..Len(models[i].observers) |->
                                [event |-> "onTeardown",
                                 observer |-> models[i].observers[k], dt |-> 0]]
                            \o <<[event |-> "teardown children", dt |-> 0]>>]
    /\ UNCHANGED <<jsonPath, files>>
    /\ UNCHANGED <<genVars, spineVars>>

\* the documents the stepping and the path specifications read
PathDocs == {Malformed, Document(2, << <<1, 2>> >>, << <<2, 1>> >>, GoodParams)}

\* one model built from every document
SchemaInit ==
    /\ jsonPath = ""
    /\ files \in {[p \in Paths |-> d] : d \in Docs}
    /\ models = [i \in Instances |-> NewModel]
    /\ tensCall = NoCall
    /\ GenIdle
    /\ SpineIdle

SchemaNext ==
    \/ \E j \in Paths : TensConstruct("m1", j)
    \/ \E o \in Observers : TensAttach("m1", o)
    \/ TensSetup("m1")
    \/ TensTeardown("m1")

SpecSchema == SchemaInit /\ [][SchemaNext]_vars

\* one model through its life: constructed, observed, set up, stepped, torn down
TensInit ==
    /\ jsonPath = ""
    /\ files \in [Paths -> PathDocs]
    /\ models = [i \in Instances |-> NewModel]
    /\ tensCall = NoCall
    /\ GenIdle
    /\ SpineIdle

TensNext ==
    \/ \E j \in Paths : TensConstruct("m1", j)
    \/ \E o \in Observers : TensAttach("m1", o)
    \/ TensSetup("m1")
    \/ \E dt \in TimeSteps : TensStep("m1", dt)
    \/ TensTeardown("m1")

SpecTens == TensInit /\ [][TensNext]_vars

\* several models constructed and set up in any order
PathsNext ==
    \/ \E i \in Instances, j \in Paths : TensConstruct(i, j)
    \/ \E i \in Instances : TensSetup(i)
    \/ \E i \in Instances : TensTeardown(i)

SpecPaths == TensInit /\ [][PathsNext]_vars

\* -------------------------------------- the segment generator on its own
\* a prototype of n nodes and e rod edges laid out by position like the
\* tetrahedron: nodes 0..2 the base, node 3 the tip
RECURSIVE ProtoEdges(_, _, _)
ProtoEdges(s, n, e) ==
    IF e = 0 THEN s
    ELSE addPair(ProtoEdges(s, n, e - 1), (e - 1) % n, e % n, <<"proto", "rod">>)

RECURSIVE ProtoNodes(_, _)
ProtoNodes(s, n) == IF n = 0 THEN s ELSE addNode(ProtoNodes(s, n - 1), {n - 1}, {})

Proto(n, e) == ProtoEdges(ProtoNodes(EmptyStructure, n), n, e)

Prototypes ==
    {Proto(n, e) : n \in MinProtoNodes..MaxProtoNodes, e \in 0..MaxProtoEdges}
        \cup {TetraPrototype}

GenInit ==
    /\ genTetra \in Prototypes
    /\ genCount \in 0..MaxSegments
    /\ genSnake = EmptyStructure
    /\ genPc = "start"
    /\ SpineIdle
    /\ TensIdle

GenAddSegments ==
    /\ genPc = "start"
    /\ genSnake' = addSegments(genSnake, genTetra, genCount)
    /\ genPc' = "segments"
    /\ UNCHANGED <<genTetra, genCount>>
    /\ UNCHANGED <<spineVars, tensVars>>

GenAddMuscles ==
    /\ genPc = "segments"
    /\ genSnake' = addMuscles(genSnake)
    /\ genPc' = "muscles"
    /\ UNCHANGED <<genTetra, genCount>>
    /\ UNCHANGED <<spineVars, tensVars>>

GenNext == GenAddSegments \/ GenAddMuscles

SpecGen == GenInit /\ [][GenNext]_vars

\* ------------------------------------------------------ spine properties
SetupRan == spineStatus \in {"setup", "crashed"}

FirstMatch(spec, tags, r) ==
    /\ r \in 1..Len(spec)
    /\ Matches(spec[r].label, tags)
    /\ \A j \in 1..(r - 1) : ~Matches(spec[j].label, tags)

\* the label of the registry of setup that the words of a muscle tag name
ExpectedLabel(tags) ==
    IF Matches(<<"rod">>, tags) THEN <<"rod">>
    ELSE IF Matches(<<"top">>, tags) THEN <<"top", "muscle">>
    ELSE IF Matches(<<"left">>, tags) THEN <<"left", "muscle">>
    ELSE <<"right", "muscle">>

\* C4: with the registry in setup's order every edge of the generated chain
\* (8 rod edges per segment, 6 muscle edges per adjacent pair) resolves, and
\* to the first-registered label contained in one of its tags.
C4_EveryEdgeResolves ==
    /\ spineStatus # "unresolved edge"
    /\ SetupRan =>
        LET ps == AllPairs(snake)
        IN  /\ Len(ps) = 8 * m_segments +
                          (IF m_segments >= 1 THEN 6 * (m_segments - 1) ELSE 0)
            /\ \A i \in 1..Len(ps) :
                    LET r == Resolve(SpineBuildSpec, ps[i].tags)
                    IN  /\ r # 0
                        /\ FirstMatch(SpineBuildSpec, ps[i].tags, r)
                        /\ SpineBuildSpec[r].label = ExpectedLabel(ps[i].tags)
            /\ Len(spineRigids) = 8 * m_segments
            /\ \A i \in 1..Len(spineRigids) : spineRigids[i].config = "rodConfig"
            /\ Len(spineRigids) + Len(m_allMuscles) = Len(ps)

C4_Witness ==
    /\ spineStatus = "setup"
    /\ m_segments = 3
    /\ Len(spineRigids) = 24
    /\ Len(m_allMuscles) = 12
    /\ \E i \in 1..Len(m_allMuscles) :
            /\ Matches(<<"inner", "left", "muscle">>, m_allMuscles[i].tags)
            /\ m_allMuscles[i].config = "muscleConfig2"
    /\ \E i \in 1..Len(m_allMuscles) :
            /\ Matches(<<"outer", "top", "muscle">>, m_allMuscles[i].tags)
            /\ m_allMuscles[i].config = "muscleConfig"

\* C10: for every segment count N >= 1 the marker step of setup reads only
\* children of index < N and rigid components of index < 8*N.
C10_MarkerReadsInRange ==
    (m_segments >= 1 /\ SetupRan) =>
        /\ \A c \in markerReads.children : c < m_segments /\ c < Len(snake.children)
        /\ \A r \in markerReads.rigids : r < 8 * m_segments /\ r < Len(spineRigids)

\* ------------------------------------------------------- step properties
Rejected(call) == call.thrown = "invalid_argument" /\ call.events = <<>>

\* C2: in both models step(dt) with dt = 0 or dt < 0 raises invalid-argument,
\* notifies no observer and advances no child.
C2_NonPositiveStepRejected ==
    \A call \in {spineCall, tensCall} :
        (call.op = "step" /\ call.dt <= 0) => Rejected(call)

Count(events, e) == Cardinality({k \in 1..Len(events) : events[k] = e})

\* C6: for dt > 0 TensegrityModel::step notifies each attached observer
\* exactly once, in attachment order, and only then advances the children,
\* exactly once.
C6_NotifyThenAdvance ==
    [][\A i \in Instances :
        (tensCall' # tensCall /\ tensCall'.op = "step" /\ tensCall'.who = i
            /\ tensCall'.dt > 0) =>
            LET obs == models[i].observers
                ev  == tensCall'.events
                dt  == tensCall'.dt
            IN  /\ tensCall'.thrown = "none"
                /\ Len(ev) = Len(obs) + 1
                /\ \A k \in 1..Len(obs) :
                        /\ ev[k] = [event |-> "onStep", observer |-> obs[k], dt |-> dt]
                        /\ Count(ev, ev[k]) = 1
                /\ ev[Len(ev)] = [event |-> "step children", dt |-> dt]
                /\ Count(ev, [event |-> "step children", dt |-> dt]) = 1
                /\ models' = models]_vars

C6_Witness ==
    /\ tensCall.op = "step"
    /\ tensCall.dt > 0
    /\ models["m1"].observers = <<2, 1>>
    /\ Len(tensCall.events) = 3
    /\ tensCall.events[1].observer = 2
    /\ tensCall.events[2].observer = 1
    /\ tensCall.events[3].event = "step children"

\* ----------------------------------------------------- schema properties
HasRead(m) == m.readPath # ""

NothingBuilt(m) ==
    /\ m.s = EmptyStructure
    /\ m.builders = <<>>
    /\ m.rigids = <<>>
    /\ m.allActuators = <<>>
    /\ m.setupNotified = <<>>
    /\ ~m.childrenSetup
    /\ m.status = "constructed"

\* C3: when setup fails to parse the document it reports a diagnostic and
\* builds nothing: no node, edge, builder or component, no setup
\* notification, no child setup.
C3_ParseFailureBuildsNothing ==
    \A i \in Instances :
        (HasRead(models[i]) /\ ~files[models[i].readPath].parses) =>
            /\ models[i].result = "parse failure"
            /\ models[i].diagnostic = "Failed to parse configuration"
            /\ NothingBuilt(models[i])

C3_Witness ==
    /\ models["m1"].result = "parse failure"
    /\ ~files[models["m1"].readPath].parses
    /\ Len(models["m1"].observers) = 2
    /\ models["m1"].setupNotified = <<>>

TaggedPairs(s, word) == SelectSeq(s.pairs, LAMBDA p : Matches(<<word>>, p.tags))

\* the pairs of s that carry the tag are the entries, each (a, b) as the edge
\* from node a-1 to node b-1
EdgesAre(s, word, entries) ==
    LET ps == TaggedPairs(s, word)
    IN  /\ Len(ps) = Len(entries)
        /\ \A k \in 1..Len(entries) :
                /\ ps[k].from = Pos(At(s.nodes, entries[k][1] - 1))
                /\ ps[k].to = Pos(At(s.nodes, entries[k][2] - 1))
                /\ ps[k].tags = {<<word>>}

\* C5: a well-formed document with K nodes, R rods and M muscles gives a
\* graph of K nodes (node j at index j-1), R edges tagged "rod" and M tagged
\* "muscle", entry (a, b) being the edge (a-1, b-1), and with the two
\* builders R rigid-link and M actuator components.
C5_SchemaRoundTrip ==
    \A i \in Instances :
        (HasRead(models[i]) /\ WellFormed(files[models[i].readPath])) =>
            LET doc == files[models[i].readPath]
                m   == models[i]
            IN  /\ m.result = "built"
                /\ Len(m.s.nodes) = Len(doc.nodes)
                /\ \A j \in 1..Len(doc.nodes) :
                        /\ At(m.s.nodes, j - 1).at = doc.nodes[j]
                        /\ At(m.s.nodes, j - 1).t = TensInitialMove
                /\ Len(m.s.pairs) = Len(doc.rods) + Len(doc.muscles)
                /\ EdgesAre(m.s, "rod", doc.rods)
                /\ EdgesAre(m.s, "muscle", doc.muscles)
                /\ Len(m.builders) = 2
                /\ Len(m.rigids) = Len(doc.rods)
                /\ Len(m.allActuators) = Len(doc.muscles)
                /\ \A k \in 1..Len(m.rigids) : m.rigids[k].kind = "rod"
                /\ \A k \in 1..Len(m.allActuators) : m.allActuators[k].kind = "muscle"

C5_Witness ==
    /\ models["m1"].result = "built"
    /\ Len(models["m1"].s.nodes) = 2
    /\ files[models["m1"].readPath].rods = << <<1, 2>> >>
    /\ files[models["m1"].readPath].muscles = << <<2, 1>> >>
    /\ Len(models["m1"].rigids) = 1
    /\ Len(models["m1"].allActuators) = 1

\* C7: a document that parses but lacks a required numeric field, or holds a
\* non-numeric value there, makes setup abort: no builder is registered and
\* no component is built.
C7_MissingFieldAborts ==
    \A i \in Instances :
        (/\ HasRead(models[i])
         /\ files[models[i].readPath].parses
         /\ \E f \in Fields : files[models[i].readPath].params[f].type # "number") =>
            /\ models[i].result \in {"parse failure", "conversion failure"}
            /\ models[i].builders = <<>>
            /\ models[i].rigids = <<>>
            /\ models[i].allActuators = <<>>

\* C9: each instance's setup reads the document at the path its own
\* constructor was given, whatever other instances were constructed since.
C9_SetupReadsOwnPath ==
    \A i \in Instances :
        HasRead(models[i]) => models[i].readPath = models[i].ctorPath

\* -------------------------------------------------- generator properties
ChildNodeCount(s) == SumSeq([i \in 1..Len(s.children) |-> Len(s.children[i].nodes)])

ChildPairCount(s) == SumSeq([i \in 1..Len(s.children) |-> Len(s.children[i].pairs)])

GenModel == buildInto(genSnake, SpineBuildSpec)

Link(s, i, a, b) ==
    [from |-> Pos(At(s.children[i].nodes, a)), to |-> Pos(At(s.children[i + 1].nodes, b))]

Ends(pair) == [from |-> pair.from, to |-> pair.to]

NodePositions(structure) == {Pos(structure.nodes[k]) : k \in 1..Len(structure.nodes)}

OuterLinks(s) ==
    {Link(s, i, k, k) : i \in 1..(Len(s.children) - 1), k \in {0, 1, 2}}

InnerLinks(s) ==
    {Link(s, i, k, 3) : i \in 1..(Len(s.children) - 1), k \in {0, 1, 2}}

IsOuter(pair) == \E tg \in pair.tags : Contains(<<"outer">>, tg)

IsInner(pair) == \E tg \in pair.tags : Contains(<<"inner">>, tg)

\* C8: after addMuscles on N segments the actuator edges are exactly, for
\* each i in 1..N-1, three outer edges node k -> node k and three inner edges
\* node k -> node 3 (k in 0..2) from segment i to segment i+1; none joins
\* two nodes of one segment or two segments that are not adjacent.
C8_ActuatorTopology ==
    genPc = "muscles" =>
        LET ps == genSnake.pairs
            n  == Len(genSnake.children)
        IN  /\ {Ends(ps[j]) : j \in {j \in 1..Len(ps) : IsOuter(ps[j])}} = OuterLinks(genSnake)
            /\ {Ends(ps[j]) : j \in {j \in 1..Len(ps) : IsInner(ps[j])}} = InnerLinks(genSnake)
            /\ \A j \in 1..Len(ps) : IsOuter(ps[j]) # IsInner(ps[j])
            /\ n >= 1 => Len(ps) = 6 * (n - 1)
            /\ Cardinality({Ends(ps[j]) : j \in 1..Len(ps)}) = Len(ps)
            /\ \A j \in 1..Len(ps) :
                    /\ \E i \in 1..(n - 1) :
                            /\ ps[j].from \in NodePositions(genSnake.children[i])
                            /\ ps[j].to \in NodePositions(genSnake.children[i + 1])
                    /\ \A i \in 1..n :
                            ~(/\ ps[j].from \in NodePositions(genSnake.children[i])
                              /\ ps[j].to \in NodePositions(genSnake.children[i]))
                    /\ \A i1, i2 \in 1..n :
                            (/\ ps[j].from \in NodePositions(genSnake.children[i1])
                             /\ ps[j].to \in NodePositions(genSnake.children[i2]))
                                => i2 = i1 + 1

C8_Witness ==
    /\ genPc = "muscles"
    /\ genCount = 3
    /\ Len(genSnake.pairs) = 12
    /\ \E j \in 1..Len(genSnake.pairs) :
            /\ IsInner(genSnake.pairs[j])
            /\ Ends(genSnake.pairs[j]) = Link(genSnake, 2, 0, 3)

====
